---- MODULE Spec2Model ----
(***************************************************************************)
(* attack_detector of mmdet/apis/train.py as a state machine.              *)
(*                                                                         *)
(* One run of attack_detector(args, model, cfg, dataset): the optional     *)
(* clearing of the output directory, the loop over the batches of the      *)
(* loader, the inner attack loop (model call, debugger stop, accuracy      *)
(* record, backward passes, perturbation step, graph release, zero_grad),  *)
(* the accumulation of the accuracies, the rendering and the two image     *)
(* writes, and the final division and report.                              *)
(*                                                                         *)
(* Numbers.  Pixel values are exact rationals kept as integers in units of *)
(* 1 / Scale(num_attack_iter): one attack step adds                        *)
(* epsilon / num_attack_iter * grad / max|grad|, a multiple of that unit.  *)
(* Binary floating-point rounding is not modelled; 0/0 is NaN as in torch. *)
(* Accuracy totals are exact rationals [num, den].                         *)
(***************************************************************************)
EXTENDS Integers, Sequences, FiniteSets

\* ---------------------------------------------------------------- bounds
\* Largest length of the data loader (number of batches).
MaxLen == 2
\* Largest value of args.max_attack_batches.
MaxCap == 2
\* Largest value of args.num_attack_iter.
MaxIter == 2

\* Values of args.epsilon.
Epsilons == {0, 1}
\* Accuracy values the model may return in result['acc'].
AccValues == {0, 1}

\* The image tensor has NumChannels channels of one pixel each (H = W = 1).
NumChannels == 3
Channels == 1..NumChannels
\* Index of an element of a channel-first (C, H, W) array.
CHW == {<<c, 1, 1>> : c \in Channels}

\* img_norm_cfg of the data source: per-channel mean and std.
ImgNormMean == <<3, 2, 1>>
ImgNormStd == <<2, 3, 2>>

\* Raw (normalised) pixel of batch b, channel c, as the data source yields it.
RawPixel(b, c) == b + c - 2

\* A name in the output directory: <<prefix, stem>>; the stem of the file of
\* batch b is b (os.path.split keeps the last path component).
OutName(prefix, b) == <<prefix, b>>
\* Names in the output directory before the run: an attack image left by an
\* earlier run, and a sub-directory (os.remove fails on it).
StaleFile == OutName("attack_", 0)
SubDir == OutName("", -1)
InitialDirs == {{}, {StaleFile}, {StaleFile, SubDir}}
IsDirectory(f) == f = SubDir

\* The detector under attack is an input, described by what its invocations
\* can return: the gradients one loss term may contribute to the image, per
\* element, and the accuracies.
\*   "sampled": a zero and a non-zero gradient, every accuracy of AccValues;
\*   "dense":   every gradient with elements in GradValues, accuracy 0.
ZeroGradient == [x \in CHW |-> 0]
GradValues == {-1, 0, 1}
SampledGrads ==
  { ZeroGradient,
    [x \in CHW |-> IF x[1] = 1 THEN 1 ELSE IF x[1] = 2 THEN 0 ELSE -1] }
AllGrads == [CHW -> GradValues]
TermGrads(m) == IF m = "dense" THEN AllGrads ELSE SampledGrads
ModelAccs(m) == IF m = "dense" THEN {0} ELSE AccValues

\* A loss entry of the result mapping: a list of loss terms or one 0-dim tensor.
TensorEntry == [is_list |-> FALSE, terms |-> 1]
ListEntry(k) == [is_list |-> TRUE, terms |-> k]
\* The non-acc entries of a result mapping, in key order.
LossShapes ==
  { <<>>,
    <<TensorEntry>>,
    <<ListEntry(1)>>,
    <<ListEntry(2)>>,
    <<ListEntry(1), TensorEntry>> }

\* Result mappings the model may return.
Results(m) ==
  [has_acc : {TRUE}, acc : ModelAccs(m), losses : LossShapes]
    \cup [has_acc : {FALSE}, acc : {0}, losses : {<<ListEntry(1)>>}]

\* --------------------------------------------------------------- helpers
Abs(x) == IF x < 0 THEN -x ELSE x

RECURSIVE SetMax(_)
SetMax(S) ==
  IF S = {} THEN 0
  ELSE LET x == CHOOSE y \in S : TRUE
           m == SetMax(S \ {x})
       IN IF x > m THEN x ELSE m

RECURSIVE Gcd(_, _)
Gcd(a, b) == IF b = 0 THEN a ELSE Gcd(b, a % b)

RECURSIVE LcmUpTo(_)
LcmUpTo(k) == IF k <= 1 THEN 1 ELSE LET l == LcmUpTo(k - 1) IN (l * k) \div Gcd(l, k)

\* Largest number of loss terms of one result, and largest |gradient| after
\* all of them are accumulated.
TermsOf(losses) ==
  LET RECURSIVE Sum(_)
      Sum(j) == IF j = 0 THEN 0 ELSE losses[j].terms + Sum(j - 1)
  IN Sum(Len(losses))
MaxTerms == SetMax({TermsOf(l) : l \in LossShapes})
MaxTermGrad == SetMax({Abs(v) : v \in GradValues})

\* Every max|grad| divides GradUnit, so grad / max|grad| is a multiple of 1/GradUnit.
GradUnit == LcmUpTo(MaxTerms * MaxTermGrad)
\* Pixel values are integers in units of 1 / Scale(n).
Scale(n) == GradUnit * (IF n = 0 THEN 1 ELSE n)

Rat(n, d) == [num |-> n, den |-> d]

\* ----------------------------------------------------------------- state
VARIABLES
  args,               \* clear_output, max_attack_batches, num_attack_iter, epsilon, save_path
  model,              \* the gradient family of the detector under attack
  loader_len,         \* attack_loader.__len__()
  pc,                 \* position in attack_detector
  err,                \* the exception that ended the run, or "none"
  dir_entries,        \* names in the directory args.save_path
  file_list,          \* the result of os.listdir(args.save_path)
  removed,            \* entries of file_list the removal loop has passed
  outputs,            \* paths written by visualize_img, in order
  max_batch,
  i,                  \* enumerate index of the current batch
  imgs, raw_imgs,
  img_grad,           \* imgs.grad of the current leaf tensor
  param_grad,         \* gradient accumulated on the model parameters
  result, keys,
  acc_list,
  it,                 \* completed iterations of the inner loop
  kidx, tidx,         \* position of the backward loops (key, term)
  acc_before_attack, acc_under_attack,
  pbar_outer, pbar_inner,
  stdout,             \* lines printed
  \* history, read by the properties only
  img_steps,          \* perturbation steps applied to imgs in this batch
  scored_steps,       \* img_steps at each model invocation of this batch
  bw_log,             \* loss terms backpropagated since the last model invocation
  hist                \* [pre, post] accuracies added to the totals, per finished batch

vars ==
  << args, model, loader_len, pc, err, dir_entries, file_list, removed, outputs, max_batch, i,
     imgs, raw_imgs, img_grad, param_grad, result, keys, acc_list, it, kidx, tidx,
     acc_before_attack, acc_under_attack, pbar_outer, pbar_inner, stdout,
     img_steps, scored_steps, bw_log, hist >>

NoImage == [nan |-> FALSE, px |-> ZeroGradient]
NoGrad == [none |-> TRUE, g |-> ZeroGradient, from |-> 0]
NoResult == [has_acc |-> TRUE, acc |-> 0, losses |-> <<>>]

ArgsSet ==
  [ clear_output : BOOLEAN,
    max_attack_batches : 0..MaxCap,
    num_attack_iter : 0..MaxIter,
    epsilon : Epsilons,
    save_path_sep : BOOLEAN ]   \* does save_path end with a path separator

\* The state when attack_detector reaches its first statement after building
\* the loader, for arguments, detector, loader length and directory drawn from
\* the given sets.
InitFrom(argset, models, lens, dirs) ==
  /\ args \in argset
  /\ model \in models
  /\ loader_len \in lens
  /\ dir_entries \in dirs
  /\ pc = "clear"
  /\ err = "none"
  /\ file_list = {}
  /\ removed = {}
  /\ outputs = <<>>
  /\ max_batch = 0
  /\ i = -1
  /\ imgs = NoImage
  /\ raw_imgs = NoImage
  /\ img_grad = NoGrad
  /\ param_grad \in {0, 1}     \* the parameters may carry gradients of earlier use
  /\ result = NoResult
  /\ keys = <<>>
  /\ acc_list = <<>>
  /\ it = 0
  /\ kidx = 1
  /\ tidx = 1
  /\ acc_before_attack = Rat(0, 1)
  /\ acc_under_attack = Rat(0, 1)
  /\ pbar_outer = 0
  /\ pbar_inner = 0
  /\ stdout = <<>>
  /\ img_steps = 0
  /\ scored_steps = <<>>
  /\ bw_log = <<>>
  /\ hist = <<>>

Init == InitFrom(ArgsSet, {"sampled"}, 0..MaxLen, InitialDirs)

\* One batch under the dense detector: the numerical cases of the attack step,
\* with a stale file to clear.
NumArgsSet ==
  [ clear_output : {TRUE},
    max_attack_batches : {1},
    num_attack_iter : 0..MaxIter,
    epsilon : Epsilons,
    save_path_sep : {TRUE} ]
InitNum == InitFrom(NumArgsSet, {"dense"}, {1}, {{StaleFile}})

\* An uncaught exception ends the run.
Raise(e) == pc' = "aborted" /\ err' = e

\* ------------------------------------------------- clearing the directory
\* Mutant of FilesToRemove: the listing is never taken.
FilesToRemoveNone(clear_output, listing) == {}

\* if args.clear_output: file_list = os.listdir(args.save_path)
FilesToRemove(clear_output, listing) == IF clear_output THEN listing ELSE {}

ClearOutput ==
  /\ pc = "clear"
  /\ file_list' = FilesToRemove(args.clear_output, dir_entries)
  /\ pc' = "remove"
  /\ UNCHANGED << args, model, loader_len, err, dir_entries, removed, outputs, max_batch, i, imgs,
                  raw_imgs, img_grad, param_grad, result, keys, acc_list, it, kidx,
                  tidx, acc_before_attack, acc_under_attack, pbar_outer, pbar_inner,
                  stdout, img_steps, scored_steps, bw_log, hist >>

\* for f in file_list: os.remove(...); os.listdir gives the names in no fixed
\* order, and os.remove raises on a directory.
RemoveOne ==
  /\ pc = "remove"
  /\ \E f \in file_list \ removed :
       IF IsDirectory(f)
       THEN /\ Raise("OSError")
            /\ UNCHANGED << dir_entries, removed >>
       ELSE /\ dir_entries' = dir_entries \ {f}
            /\ removed' = removed \cup {f}
            /\ UNCHANGED << pc, err >>
  /\ UNCHANGED << args, model, loader_len, file_list, outputs, max_batch, i, imgs, raw_imgs,
                  img_grad, param_grad, result, keys, acc_list, it, kidx, tidx,
                  acc_before_attack, acc_under_attack, pbar_outer, pbar_inner,
                  stdout, img_steps, scored_steps, bw_log, hist >>

\* Mutants of MaxBatch: the cap is ignored; the loader length is ignored.
MaxBatchLenOnly(len, cap) == len
MaxBatchCapOnly(len, cap) == cap

\* max_batch = min(attack_loader.__len__(), args.max_attack_batches)
MaxBatch(len, cap) == IF len < cap THEN len ELSE cap

\* The progress bars and the two totals start at 0.
Setup ==
  /\ pc = "remove"
  /\ removed = file_list
  /\ max_batch' = MaxBatch(loader_len, args.max_attack_batches)
  /\ acc_before_attack' = Rat(0, 1)
  /\ acc_under_attack' = Rat(0, 1)
  /\ pbar_outer' = 0
  /\ pbar_inner' = 0
  /\ pc' = "loop"
  /\ UNCHANGED << args, model, loader_len, err, dir_entries, file_list, removed, outputs, i, imgs,
                  raw_imgs, img_grad, param_grad, result, keys, acc_list, it, kidx,
                  tidx, stdout, img_steps, scored_steps, bw_log, hist >>

\* ------------------------------------------------------------ batch loop
\* data['img'].data[0] of batch b, in units of 1 / Scale(n).
BatchImage(b, n) == [nan |-> FALSE, px |-> [x \in CHW |-> RawPixel(b, x[1]) * Scale(n)]]

\* for i, data in enumerate(attack_loader): if i >= max_batch: break
\* and the head of the body up to acc_list = [].  The loader yields batch
\* i + 1 before the break test reads it.
NextBatch ==
  /\ pc = "loop"
  /\ IF i + 1 >= loader_len
     THEN /\ pc' = "finish"
          /\ UNCHANGED << i, imgs, raw_imgs, pbar_inner, acc_list, it, img_steps,
                          scored_steps >>
     ELSE IF i + 1 >= max_batch
     THEN /\ pc' = "finish"
          /\ i' = i + 1
          /\ UNCHANGED << imgs, raw_imgs, pbar_inner, acc_list, it, img_steps,
                          scored_steps >>
     ELSE /\ pc' = "iter"
          /\ i' = i + 1
          /\ imgs' = BatchImage(i + 1, args.num_attack_iter)
          /\ raw_imgs' = BatchImage(i + 1, args.num_attack_iter)
          /\ pbar_inner' = 0
          /\ acc_list' = <<>>
          /\ it' = 0
          /\ img_steps' = 0
          /\ scored_steps' = <<>>
  /\ UNCHANGED << args, model, loader_len, err, dir_entries, file_list, removed, outputs, max_batch,
                  img_grad, param_grad, result, keys, kidx, tidx, acc_before_attack,
                  acc_under_attack, pbar_outer, stdout, bw_log, hist >>

\* ----------------------------------------------------------- attack step
\* imgs = imgs.detach(); imgs.requires_grad = True; result = model(imgs, ...)
\* The detached tensor is a new leaf: its .grad is None.
Invoke ==
  /\ pc = "iter"
  /\ it < args.num_attack_iter
  /\ img_grad' = NoGrad
  /\ \E r \in Results(model) : result' = r
  /\ scored_steps' = Append(scored_steps, img_steps)
  /\ bw_log' = <<>>
  /\ pc' = "pdb"
  /\ UNCHANGED << args, model, loader_len, err, dir_entries, file_list, removed, outputs, max_batch,
                  i, imgs, raw_imgs, param_grad, keys, acc_list, it, kidx, tidx,
                  acc_before_attack, acc_under_attack, pbar_outer, pbar_inner,
                  stdout, img_steps, hist >>

\* pdb.set_trace(): the run stops at the debugger prompt until the operator
\* answers; "continue" resumes at the next line.
PdbContinue ==
  /\ pc = "pdb"
  /\ pc' = "record"
  /\ UNCHANGED << args, model, loader_len, err, dir_entries, file_list, removed, outputs, max_batch,
                  i, imgs, raw_imgs, img_grad, param_grad, result, keys, acc_list,
                  it, kidx, tidx, acc_before_attack, acc_under_attack, pbar_outer,
                  pbar_inner, stdout, img_steps, scored_steps, bw_log, hist >>

\* "quit", or end of input on stdin, raises bdb.BdbQuit.
PdbQuit ==
  /\ pc = "pdb"
  /\ Raise("BdbQuit")
  /\ UNCHANGED << args, model, loader_len, dir_entries, file_list, removed, outputs, max_batch,
                  i, imgs, raw_imgs, img_grad, param_grad, result, keys, acc_list,
                  it, kidx, tidx, acc_before_attack, acc_under_attack, pbar_outer,
                  pbar_inner, stdout, img_steps, scored_steps, bw_log, hist >>

\* Mutant of LookupAcc: result.get('acc', 0), a missing key reads as 0.
LookupAccDefault(r) == <<r.acc>>

\* result['acc']: <<value>>, or <<>> when the key is absent (KeyError).
LookupAcc(r) == IF r.has_acc THEN <<r.acc>> ELSE <<>>

\* Mutant of RecordAcc: the trace keeps the latest value only.
RecordAccLatest(list, acc) == <<acc>>

\* acc_list.append(result['acc'])
RecordAcc(list, acc) == Append(list, acc)

\* keys = list(result.keys()); acc_list.append(result['acc']); keys.remove('acc')
Record ==
  /\ pc = "record"
  /\ keys' = result.losses
  /\ kidx' = 1
  /\ tidx' = 1
  /\ IF LookupAcc(result) = <<>>
     THEN /\ Raise("KeyError")
          /\ UNCHANGED acc_list
     ELSE /\ acc_list' = RecordAcc(acc_list, LookupAcc(result)[1])
          /\ pc' = IF result.losses = <<>> THEN "update" ELSE "backward"
          /\ UNCHANGED err
  /\ UNCHANGED << args, model, loader_len, dir_entries, file_list, removed, outputs, max_batch, i,
                  imgs, raw_imgs, img_grad, param_grad, result, it,
                  acc_before_attack, acc_under_attack, pbar_outer, pbar_inner,
                  stdout, img_steps, scored_steps, bw_log, hist >>

\* loss.backward(retain_graph=True) adds the term's gradient to imgs.grad
\* (created on the first backward pass).
AccumulateGrad(grad, g) ==
  [none |-> FALSE, g |-> [x \in CHW |-> grad.g[x] + g[x]], from |-> grad.from + 1]

\* for key in keys: one backward pass per term of a list entry, one for a
\* tensor entry.  Each pass also adds to the gradients of the model parameters.
Backward ==
  /\ pc = "backward"
  /\ \E g \in TermGrads(model) : img_grad' = AccumulateGrad(img_grad, g)
  /\ param_grad' = param_grad + 1
  /\ bw_log' = Append(bw_log, <<kidx, tidx>>)
  /\ IF tidx < keys[kidx].terms
     THEN /\ tidx' = tidx + 1
          /\ UNCHANGED << kidx, pc >>
     ELSE IF kidx < Len(keys)
     THEN /\ kidx' = kidx + 1
          /\ tidx' = 1
          /\ UNCHANGED pc
     ELSE /\ pc' = "update"
          /\ UNCHANGED << kidx, tidx >>
  /\ UNCHANGED << args, model, loader_len, err, dir_entries, file_list, removed, outputs, max_batch,
                  i, imgs, raw_imgs, result, keys, acc_list, it, acc_before_attack,
                  acc_under_attack, pbar_outer, pbar_inner, stdout, img_steps,
                  scored_steps, hist >>

\* torch.max(torch.abs(imgs.grad))
MaxAbs(g) == SetMax({Abs(g[x]) : x \in CHW})

\* Mutant of StepDelta: the budget is not divided by num_attack_iter.
StepDeltaWholeBudget(epsilon, n, gx, m) == epsilon * n * gx * (GradUnit \div m)

\* args.epsilon / args.num_attack_iter * grad / max|grad| for one element, in
\* units of 1 / Scale(n) = 1 / (GradUnit * n); m divides GradUnit.
StepDelta(epsilon, n, gx, m) == epsilon * gx * (GradUnit \div m)

\* imgs + epsilon / n * imgs.grad / max|grad|.  With max|grad| = 0 every
\* element is 0/0 = NaN; NaN stays NaN under + and *.
Perturb(img, epsilon, n, g) ==
  IF img.nan \/ MaxAbs(g) = 0
  THEN [nan |-> TRUE, px |-> ZeroGradient]
  ELSE [nan |-> FALSE,
        px |-> [x \in CHW |-> img.px[x] + StepDelta(epsilon, n, g[x], MaxAbs(g))]]

\* imgs = imgs + ...: imgs.grad is None when no loss term reached the image
\* (TypeError); the sum is a new tensor without .grad.
Update ==
  /\ pc = "update"
  /\ IF img_grad.none
     THEN /\ Raise("TypeError")
          /\ UNCHANGED << imgs, img_grad, img_steps >>
     ELSE /\ imgs' = Perturb(imgs, args.epsilon, args.num_attack_iter, img_grad.g)
          /\ img_grad' = NoGrad
          /\ img_steps' = img_steps + 1
          /\ pc' = "release"
          /\ UNCHANGED err
  /\ UNCHANGED << args, model, loader_len, dir_entries, file_list, removed, outputs, max_batch, i,
                  raw_imgs, param_grad, result, keys, acc_list, it, kidx, tidx,
                  acc_before_attack, acc_under_attack, pbar_outer, pbar_inner,
                  stdout, scored_steps, bw_log, hist >>

\* result[keys[0]][0].backward(): indexing a 0-dim tensor raises IndexError;
\* the first term of a list is backpropagated once more, without retain_graph.
Release ==
  /\ pc = "release"
  /\ IF keys[1].is_list
     THEN /\ param_grad' = param_grad + 1
          /\ bw_log' = Append(bw_log, <<1, 1>>)
          /\ pc' = "zero"
          /\ UNCHANGED err
     ELSE /\ Raise("IndexError")
          /\ UNCHANGED << param_grad, bw_log >>
  /\ UNCHANGED << args, model, loader_len, dir_entries, file_list, removed, outputs, max_batch, i,
                  imgs, raw_imgs, img_grad, result, keys, acc_list, it, kidx, tidx,
                  acc_before_attack, acc_under_attack, pbar_outer, pbar_inner,
                  stdout, img_steps, scored_steps, hist >>

\* Mutant of ZeroParamGrad: the parameter gradients are left as they are.
ZeroParamGradSkipped(g) == g

\* model.zero_grad()
ZeroParamGrad(g) == 0

\* model.zero_grad(); pbar_inner.update(1)
ZeroGrad ==
  /\ pc = "zero"
  /\ param_grad' = ZeroParamGrad(param_grad)
  /\ pbar_inner' = pbar_inner + 1
  /\ it' = it + 1
  /\ pc' = "iter"
  /\ UNCHANGED << args, model, loader_len, err, dir_entries, file_list, removed, outputs, max_batch,
                  i, imgs, raw_imgs, img_grad, result, keys, acc_list, kidx, tidx,
                  acc_before_attack, acc_under_attack, pbar_outer, stdout,
                  img_steps, scored_steps, bw_log, hist >>

\* ------------------------------------------------------ after the steps
RatAdd(r, v) == Rat(r.num + v * r.den, r.den)
RatDiv(r, k) == Rat(r.num, r.den * k)
RatSub(a, b) == Rat(a.num * b.den - b.num * a.den, a.den * b.den)

\* Mutant of UnderAttackAcc: the first trace value is read again.
UnderAttackAccFirst(list) == list[1]

\* acc_list[0] and acc_list[-1]
BeforeAttackAcc(list) == list[1]
UnderAttackAcc(list) == list[Len(list)]

\* acc_before_attack += acc_list[0]; acc_under_attack += acc_list[-1]
\* (IndexError on an empty list).
Accumulate ==
  /\ pc = "iter"
  /\ it >= args.num_attack_iter
  /\ IF acc_list = <<>>
     THEN /\ Raise("IndexError")
          /\ UNCHANGED << acc_before_attack, acc_under_attack, hist >>
     ELSE /\ acc_before_attack' = RatAdd(acc_before_attack, BeforeAttackAcc(acc_list))
          /\ acc_under_attack' = RatAdd(acc_under_attack, UnderAttackAcc(acc_list))
          /\ hist' = Append(hist, [pre |-> BeforeAttackAcc(acc_list),
                                   post |-> UnderAttackAcc(acc_list)])
          /\ pc' = "render"
          /\ UNCHANGED err
  /\ UNCHANGED << args, model, loader_len, dir_entries, file_list, removed, outputs, max_batch, i,
                  imgs, raw_imgs, img_grad, param_grad, result, keys, acc_list, it,
                  kidx, tidx, pbar_outer, pbar_inner, stdout, img_steps,
                  scored_steps, bw_log >>

\* imgs[k] = imgs[k] * imgs_std[k] + imgs_mean[k], for k in range(0, 3);
\* values are in units of 1 / scale.
Denorm(a, scale) ==
  [x \in CHW |-> a[x] * ImgNormStd[x[1]] + ImgNormMean[x[1]] * scale]

\* imgs[[2, 1, 0]]: channel k of the result is channel 2 - k of the argument
\* (channels are numbered from 1 here).
ReorderChannels(a) == [x \in CHW |-> a[<<NumChannels + 1 - x[1], x[2], x[3]>>]]

\* a.transpose(1, 2, 0): element (h, w, c) of the result is element (c, h, w).
Transpose(a) ==
  [y \in {<<x[2], x[3], x[1]>> : x \in DOMAIN a} |-> a[<<y[3], y[1], y[2]>>]]

\* The display array of an image tensor; NaN elements stay NaN.
RenderImage(img, scale) ==
  [nan |-> img.nan, px |-> Transpose(ReorderChannels(Denorm(img.px, scale)))]

\* imgs.detach().cpu().numpy()[0] and raw_imgs.numpy()[0], denormalised,
\* reordered and transposed.
Render ==
  /\ pc = "render"
  /\ imgs' = RenderImage(imgs, Scale(args.num_attack_iter))
  /\ raw_imgs' = RenderImage(raw_imgs, Scale(args.num_attack_iter))
  /\ pc' = "write_raw"
  /\ UNCHANGED << args, model, loader_len, err, dir_entries, file_list, removed, outputs, max_batch,
                  i, img_grad, param_grad, result, keys, acc_list, it, kidx, tidx,
                  acc_before_attack, acc_under_attack, pbar_outer, pbar_inner,
                  stdout, img_steps, scored_steps, bw_log, hist >>

\* args.save_path + name: a file of the directory save_path only when
\* save_path ends with a separator, a sibling of the directory otherwise.
OutPath(sep, name) == [in_dir |-> sep, name |-> name]
WriteFile(entries, path) == IF path.in_dir THEN entries \cup {path.name} ELSE entries

\* visualize_img(infer_model, raw_imgs, args.save_path + filename)
WriteRaw ==
  /\ pc = "write_raw"
  /\ outputs' = Append(outputs, OutPath(args.save_path_sep, OutName("", i)))
  /\ dir_entries' = WriteFile(dir_entries, OutPath(args.save_path_sep, OutName("", i)))
  /\ pc' = "write_attack"
  /\ UNCHANGED << args, model, loader_len, err, file_list, removed, max_batch, i, imgs, raw_imgs,
                  img_grad, param_grad, result, keys, acc_list, it, kidx, tidx,
                  acc_before_attack, acc_under_attack, pbar_outer, pbar_inner,
                  stdout, img_steps, scored_steps, bw_log, hist >>

\* visualize_img(infer_model, imgs, args.save_path + 'attack_' + filename);
\* pbar_outer.update(1)
WriteAttack ==
  /\ pc = "write_attack"
  /\ outputs' = Append(outputs, OutPath(args.save_path_sep, OutName("attack_", i)))
  /\ dir_entries' =
       WriteFile(dir_entries, OutPath(args.save_path_sep, OutName("attack_", i)))
  /\ pbar_outer' = pbar_outer + 1
  /\ pc' = "loop"
  /\ UNCHANGED << args, model, loader_len, err, file_list, removed, max_batch, i, imgs, raw_imgs,
                  img_grad, param_grad, result, keys, acc_list, it, kidx, tidx,
                  acc_before_attack, acc_under_attack, pbar_inner, stdout,
                  img_steps, scored_steps, bw_log, hist >>

\* ---------------------------------------------------------------- report
\* acc_before_attack /= max_batch; acc_under_attack /= max_batch
\* (ZeroDivisionError when max_batch is 0).
Finish ==
  /\ pc = "finish"
  /\ IF max_batch = 0
     THEN /\ Raise("ZeroDivisionError")
          /\ UNCHANGED << acc_before_attack, acc_under_attack >>
     ELSE /\ acc_before_attack' = RatDiv(acc_before_attack, max_batch)
          /\ acc_under_attack' = RatDiv(acc_under_attack, max_batch)
          /\ pc' = "print"
          /\ UNCHANGED err
  /\ UNCHANGED << args, model, loader_len, dir_entries, file_list, removed, outputs, max_batch, i,
                  imgs, raw_imgs, img_grad, param_grad, result, keys, acc_list, it,
                  kidx, tidx, pbar_outer, pbar_inner, stdout, img_steps,
                  scored_steps, bw_log, hist >>

RECURSIVE Pow10(_)
Pow10(e) == IF e <= 0 THEN 1 ELSE 10 * Pow10(e - 1)

\* The decimal exponent of a / d, for a, d > 0: 10^e <= a / d < 10^(e + 1).
RECURSIVE Exp10(_, _)
Exp10(a, d) ==
  IF a >= 10 * d THEN Exp10(a, 10 * d) + 1
  ELSE IF a < d THEN Exp10(10 * a, d) - 1
  ELSE 0

\* "%g" % r: r rounded to 6 significant digits, as sign, digits and decimal
\* exponent (the value is digits * 10^(exp - 5)).
FormatG(r) ==
  IF r.num = 0 THEN [neg |-> FALSE, digits |-> 0, exp |-> 0]
  ELSE LET a == Abs(r.num)
           d == Abs(r.den)
           e == Exp10(a, d)
           up == a * Pow10(5 - e)
           down == d * Pow10(e - 5)
           q == (2 * up + down) \div (2 * down)
       IN IF q >= Pow10(6)
          THEN [neg |-> (r.num < 0) # (r.den < 0), digits |-> q \div 10, exp |-> e + 1]
          ELSE [neg |-> (r.num < 0) # (r.den < 0), digits |-> q, exp |-> e]

\* The three print calls.
PrintResults ==
  /\ pc = "print"
  /\ stdout' = << FormatG(acc_before_attack), FormatG(acc_under_attack),
                  FormatG(RatSub(acc_before_attack, acc_under_attack)) >>
  /\ pc' = "done"
  /\ UNCHANGED << args, model, loader_len, err, dir_entries, file_list, removed, outputs, max_batch,
                  i, imgs, raw_imgs, img_grad, param_grad, result, keys, acc_list,
                  it, kidx, tidx, acc_before_attack, acc_under_attack, pbar_outer,
                  pbar_inner, img_steps, scored_steps, bw_log, hist >>

\* ------------------------------------------------------------------ spec
Next ==
  \/ ClearOutput
  \/ RemoveOne
  \/ Setup
  \/ NextBatch
  \/ Invoke
  \/ PdbContinue
  \/ PdbQuit
  \/ Record
  \/ Backward
  \/ Update
  \/ Release
  \/ ZeroGrad
  \/ Accumulate
  \/ Render
  \/ WriteRaw
  \/ WriteAttack
  \/ Finish
  \/ PrintResults

Spec == Init /\ [][Next]_vars

SpecNum == InitNum /\ [][Next]_vars

\* ------------------------------------------------------------ properties
\* Positions inside the body of the batch loop.
StepPcs == {"pdb", "record", "backward", "update", "release", "zero"}
TailPcs == {"render", "write_raw", "write_attack"}
BodyPcs == {"iter"} \cup StepPcs \cup TailPcs
AfterLoopPcs == {"finish", "print", "done"}

\* min(L, max_attack_batches), written out.
Processable ==
  IF loader_len < args.max_attack_batches THEN loader_len ELSE args.max_attack_batches

RECURSIVE SumPre(_)
SumPre(h) == IF h = <<>> THEN 0 ELSE h[1].pre + SumPre(Tail(h))
RECURSIVE SumPost(_)
SumPost(h) == IF h = <<>> THEN 0 ELSE h[1].post + SumPost(Tail(h))

\* The paths the body writes for batches 0 .. k-1, in order.
RECURSIVE ExpectedOutputs(_)
ExpectedOutputs(k) ==
  IF k = 0 THEN <<>>
  ELSE ExpectedOutputs(k - 1)
         \o << OutPath(args.save_path_sep, OutName("", k - 1)),
               OutPath(args.save_path_sep, OutName("attack_", k - 1)) >>

\* C1: the body of the batch loop runs only on batches with index below
\* min(L, max_attack_batches), in data-source order from batch 0, two writes per
\* batch, and once the loop is left it has run for exactly that many batches.
C1_BodyRunsMinBatches ==
  /\ pc \in BodyPcs => (0 <= i /\ i < Processable /\ pbar_outer = i)
  /\ pc \in TailPcs => Len(hist) = i + 1
  /\ pc \in {"loop", "render", "write_raw"} \cup AfterLoopPcs
       => outputs = ExpectedOutputs(pbar_outer)
  /\ pc = "write_attack"
       => outputs = ExpectedOutputs(pbar_outer)
                      \o << OutPath(args.save_path_sep, OutName("", i)) >>
  /\ (pc \in AfterLoopPcs \/ err = "ZeroDivisionError")
       => (pbar_outer = Processable /\ Len(hist) = Processable)

\* C1 happens: a run is over whose cap was below the loader length.
C1_Witness ==
  /\ pc = "done"
  /\ args.max_attack_batches < loader_len
  /\ pbar_outer = args.max_attack_batches
  /\ Len(outputs) = 2

\* C2: each reported mean is the sum of the per-batch accuracies added to the
\* total divided by the number of batches whose body ran, and the printed lines
\* are those values and their difference.
C2_MeanOverProcessedBatches ==
  /\ pc \in {"print", "done"} =>
       /\ pbar_outer > 0
       /\ acc_before_attack.den > 0
       /\ acc_under_attack.den > 0
       /\ acc_before_attack.num * pbar_outer = SumPre(hist) * acc_before_attack.den
       /\ acc_under_attack.num * pbar_outer = SumPost(hist) * acc_under_attack.den
  /\ pc = "done" =>
       stdout = << FormatG(Rat(SumPre(hist), pbar_outer)),
                   FormatG(Rat(SumPost(hist), pbar_outer)),
                   FormatG(Rat(SumPre(hist) - SumPost(hist), pbar_outer)) >>

\* C2 happens: the report is out for a loader shorter than the cap, with a
\* non-zero mean before the attack and a different one under attack.
C2_Witness ==
  /\ pc = "done"
  /\ loader_len < args.max_attack_batches
  /\ SumPre(hist) > 0
  /\ SumPre(hist) # SumPost(hist)

\* C3: the trace holds one value per model invocation of the current batch, in
\* invocation order, none from an earlier batch, and num_attack_iter values when
\* the inner loop is over.
C3_TraceLength ==
  /\ pc \in {"iter", "pdb", "record"} => Len(acc_list) = it
  /\ pc \in {"backward", "update", "release", "zero"} =>
       (Len(acc_list) = it + 1 /\ acc_list[it + 1] = result.acc)
  /\ pc \in StepPcs => Len(scored_steps) = it + 1
  /\ pc \in TailPcs =>
       (Len(acc_list) = args.num_attack_iter /\ it = args.num_attack_iter)

\* C3 happens: the inner loop of a second batch is over after two steps.
C3_Witness ==
  /\ pc = "render"
  /\ i = 1
  /\ args.num_attack_iter = 2
  /\ acc_list[1] # acc_list[2]

\* C4: a step whose gradient has a non-zero maximum, applied to an image no
\* earlier step of the batch turned to NaN, changes every element by at most
\* epsilon / num_attack_iter, and after k such steps the image is within
\* k * epsilon / num_attack_iter <= epsilon of the original at every element.
C4_StepWithinBudget ==
  [][ (pc = "update" /\ pc' = "release" /\ ~imgs.nan /\ MaxAbs(img_grad.g) # 0) =>
        /\ ~imgs'.nan
        /\ img_steps' <= args.num_attack_iter
        /\ \A x \in CHW :
             /\ Abs(imgs'.px[x] - imgs.px[x]) * args.num_attack_iter
                  <= args.epsilon * Scale(args.num_attack_iter)
             /\ Abs(imgs'.px[x] - raw_imgs.px[x]) * args.num_attack_iter
                  <= args.epsilon * Scale(args.num_attack_iter) * img_steps'
    ]_vars

\* C4 happens: two steps are applied, one element has used the whole budget and
\* another one moved by a fraction of a step.
C4_Witness ==
  /\ pc = "release"
  /\ args.num_attack_iter = 2
  /\ img_steps = 2
  /\ args.epsilon = 1
  /\ ~imgs.nan
  /\ \E x \in CHW : Abs(imgs.px[x] - raw_imgs.px[x]) = Scale(2)
  /\ \E x \in CHW : Abs(imgs.px[x] - raw_imgs.px[x]) % GradUnit # 0

\* C5: with clear_output the directory is empty when the batch loop starts and
\* at the first image write; nothing is removed after a write, nor at all
\* without clear_output.
C5_ClearedBeforeFirstWrite ==
  [][ /\ (args.clear_output /\ pc = "remove" /\ pc' = "loop") => dir_entries = {}
      /\ (args.clear_output /\ outputs = <<>> /\ outputs' # <<>>) => dir_entries = {}
      /\ (outputs # <<>> \/ ~args.clear_output) => dir_entries \subseteq dir_entries'
    ]_vars

\* C5 happens: a non-empty directory was cleared and the first image is written
\* into it.
C5_Witness ==
  /\ args.clear_output
  /\ args.save_path_sep
  /\ file_list # {}
  /\ pc = "write_attack"
  /\ Len(outputs) = 1
  /\ dir_entries = {OutName("", 0)}

\* C6: the run never goes on with an image holding NaN elements (a step whose
\* gradient has maximum 0 would have to end it).
C6_ZeroGradientIsFatal == ~imgs.nan

\* C7: after a model invocation whose result has no acc entry the run is at the
\* debugger stop, about to read the entry, or has ended, with no backward pass and no perturbation for
\* that invocation, no file of that batch written, the totals as they were
\* before the batch, no later batch started and nothing printed.
C7_MissingAccAborts ==
  ~result.has_acc =>
    /\ pc \in {"pdb", "record", "aborted"}
    /\ pc = "aborted" => err \in {"KeyError", "BdbQuit"}
    /\ bw_log = <<>>
    /\ img_grad.none
    /\ img_steps = it
    /\ Len(acc_list) = it
    /\ \A k \in 1..Len(outputs) : outputs[k].name[2] # i
    /\ Len(hist) = i
    /\ pbar_outer = i
    /\ acc_before_attack = Rat(SumPre(hist), 1)
    /\ acc_under_attack = Rat(SumPost(hist), 1)
    /\ stdout = <<>>

\* C7 happens: the second step of the second batch ended with KeyError.
C7_Witness ==
  /\ err = "KeyError"
  /\ i = 1
  /\ it = 1
  /\ Len(outputs) = 2

\* C8: no step of a run waits for operator or debugger input.
C8_NeverWaitsForDebugger == pc # "pdb"

\* The loss terms of the entries, in the order the backward loops visit them.
RECURSIVE TermList(_, _, _)
TermList(ks, k, t) ==
  IF k > Len(ks) THEN <<>>
  ELSE IF t > ks[k].terms THEN TermList(ks, k + 1, 1)
  ELSE << <<k, t>> >> \o TermList(ks, k, t + 1)

\* C9: from the end of the first step of a run on, the parameter gradients are
\* zero outside the backward passes of a step (so at every later model
\* invocation), inside a step they come from that step's passes only, and at
\* the image update each loss term has been backpropagated exactly once into
\* the gradient of the step's own image tensor.
C9_GradientsResetBetweenSteps ==
  /\ (pc \in {"iter", "pdb", "record", "loop"} \cup TailPcs \cup AfterLoopPcs
        /\ (i > 0 \/ it > 0)) => param_grad = 0
  /\ (pc \in {"backward", "update", "release", "zero"} /\ (i > 0 \/ it > 0))
       => param_grad = Len(bw_log)
  /\ pc \in {"pdb", "record"} => (img_grad.none /\ bw_log = <<>>)
  /\ pc = "backward" =>
       /\ bw_log = SubSeq(TermList(keys, 1, 1), 1, Len(bw_log))
       /\ img_grad.from = Len(bw_log)
  /\ pc = "update" =>
       /\ bw_log = TermList(keys, 1, 1)
       /\ img_grad.from = Len(bw_log)
       /\ img_grad.none <=> keys = <<>>
  /\ pc = "zero" => bw_log = TermList(keys, 1, 1) \o << <<1, 1>> >>

\* C9 happens: the second step of the second batch is about to update the
\* image after the backward passes of two loss entries.
C9_Witness ==
  /\ pc = "update"
  /\ i = 1
  /\ it = 1
  /\ Len(keys) = 2
  /\ param_grad = 2

\* C10: invocation k of a batch scores the image carrying k - 1 steps, so the
\* value added to the under-attack total was returned for the image with
\* num_attack_iter - 1 steps, while the image rendered and saved carries
\* num_attack_iter steps; with one iteration both totals get the same value.
C10_LastStepNeverScored ==
  /\ pc \in BodyPcs => \A k \in 1..Len(scored_steps) : scored_steps[k] = k - 1
  /\ pc \in TailPcs =>
       /\ img_steps = args.num_attack_iter
       /\ Len(scored_steps) = args.num_attack_iter
       /\ hist[Len(hist)].pre = acc_list[1]
       /\ \A k \in 1..Len(scored_steps) :
            scored_steps[k] = args.num_attack_iter - 1
              => hist[Len(hist)].post = acc_list[k]
       /\ args.num_attack_iter = 1 => hist[Len(hist)].pre = hist[Len(hist)].post

\* C10 happens: a twice perturbed image is being saved and the two values added
\* to the totals differ.
C10_Witness ==
  /\ pc = "write_attack"
  /\ args.num_attack_iter = 2
  /\ args.epsilon = 1
  /\ ~imgs.nan
  /\ hist[Len(hist)].pre # hist[Len(hist)].post
====
